---- MODULE Spec2Model ----
(***************************************************************************)
(* github-backup: enumeration of a user's GitHub repositories, one         *)
(* synchronization goroutine per repository, progress and completion       *)
(* channels.  Model of src/github-backup.go (and its libgit2 variant) and  *)
(* of src/backup/mirror.go / src/mirror.go.                                *)
(*                                                                         *)
(* Strings are sequences of one-character strings.                         *)
(***************************************************************************)
EXTENDS Integers, Sequences, FiniteSets, TLC

\* ---------------------------------------------------------------- bounds
\* descriptors the API returns in one run, over all sources and pages
MaxRepos == 2
\* descriptors on one page
MaxPerPage == 1
\* pages of one source (pagination is finite) when the synchronization
\* goroutines run
MaxPages == 2
\* pages of one source in the enumeration alone
EnumMaxPages == 3
\* organizations returned by Organizations.List when the synchronization
\* goroutines run
MaxOrgs == 1
\* organizations returned by Organizations.List in the enumeration alone
EnumMaxOrgs == 2
\* length of a repository name of the path derivation
MaxStr == 2
\* the commits a ref may point to in the synchronization taken alone
MaxCommit == 2

\* ------------------------------------------------- strings and path.Join
RECURSIVE SplitFrom(_, _, _)
\* the segments of s after a separator, cur being the segment being read
SplitFrom(s, sep, cur) ==
  IF s = << >> THEN << cur >>
  ELSE IF Head(s) = sep THEN << cur >> \o SplitFrom(Tail(s), sep, << >>)
  ELSE SplitFrom(Tail(s), sep, Append(cur, Head(s)))

\* strings.Split(s, sep) for a one-character separator
Split(s, sep) == SplitFrom(s, sep, << >>)

RECURSIVE JoinWith(_, _)
\* strings.Join(elems, sep)
JoinWith(elems, sep) ==
  IF elems = << >> THEN << >>
  ELSE IF Len(elems) = 1 THEN Head(elems)
  ELSE Head(elems) \o << sep >> \o JoinWith(Tail(elems), sep)

RECURSIVE CleanSegs(_, _, _)
\* path.Clean's pass over the elements of a path: empty elements and "."
\* are skipped, ".." removes the last kept element (it is kept itself
\* when the path is not rooted and there is nothing left to remove)
CleanSegs(segs, out, rooted) ==
  IF segs = << >> THEN out
  ELSE LET e == Head(segs) IN
    IF e = << >> \/ e = << "." >> THEN CleanSegs(Tail(segs), out, rooted)
    ELSE IF e = << ".", "." >> THEN
      IF out # << >> /\ out[Len(out)] # << ".", "." >>
        THEN CleanSegs(Tail(segs), SubSeq(out, 1, Len(out) - 1), rooted)
      ELSE IF rooted THEN CleanSegs(Tail(segs), out, rooted)
      ELSE CleanSegs(Tail(segs), Append(out, e), rooted)
    ELSE CleanSegs(Tail(segs), Append(out, e), rooted)

\* path.Clean
Clean(p) ==
  IF p = << >> THEN << "." >>
  ELSE LET rooted == Head(p) = "/"
           body == JoinWith(CleanSegs(Split(p, "/"), << >>, rooted), "/")
       IN IF rooted THEN << "/" >> \o body
          ELSE IF body = << >> THEN << "." >> ELSE body

RECURSIVE DropLeadingEmpty(_)
DropLeadingEmpty(elems) ==
  IF elems = << >> THEN << >>
  ELSE IF Head(elems) = << >> THEN DropLeadingEmpty(Tail(elems))
  ELSE elems

\* path.Join: leading empty elements are ignored, the rest is joined with
\* "/" and cleaned; all elements empty gives the empty string
PathJoin(elems) ==
  LET rest == DropLeadingEmpty(elems)
  IN IF rest = << >> THEN << >> ELSE Clean(JoinWith(rest, "/"))

\* host := strings.Split(remote.Host, ":")[0]: strip off the port portion
\* if it's there
StripPort(host) == Split(host, ":")[1]

\* the host segment left out of the path
MirrorPathSegmentsNoHost(root, host, urlPath) ==
  << root >> \o Split(urlPath, "/")

\* the segments handed to path.Join: backup root, host, the URL path split
\* on "/"
MirrorPathSegments(root, host, urlPath) ==
  << root, StripPort(host) >> \o Split(urlPath, "/")

\* the mirror path processQueue derives for a parsed remote URL
MirrorPath(root, host, urlPath) ==
  PathJoin(MirrorPathSegments(root, host, urlPath))

\* --------------------------------------------------- repository descriptors
\* *backupDir
BackupDir == << "/", "b" >>

\* A descriptor is what url.Parse makes of its CloneURL: parses is FALSE for
\* a URL url.Parse rejects; host and path are remote.Host and remote.Path.
RepoA == [parses |-> TRUE, host |-> << "h" >>, path |-> << "/", "o", "/", "a" >>]
RepoB == [parses |-> TRUE, host |-> << "h" >>, path |-> << "/", "o", "/", "b" >>]
\* a clone URL url.Parse rejects
RepoBad == [parses |-> FALSE, host |-> << >>, path |-> << >>]
\* a clone URL with no path (https://h): it parses, remote.Path is ""
RepoNoPath == [parses |-> TRUE, host |-> << "h" >>, path |-> << >>]

Descriptors == {RepoA, RepoB, RepoBad, RepoNoPath}

PathOf(d) == MirrorPath(BackupDir, d.host, d.path)

\* the mirror paths of the run
Paths == {PathOf(d) : d \in {RepoA, RepoB}}

Min(a, b) == IF a < b THEN a ELSE b

\* sequences over S of length at most n
SeqsUpTo(S, n) == UNION {[1..k -> S] : k \in 0..n}

\* ------------------------------------------------------------------ state
VARIABLES
  api,         \* per source (0: user, k: k-th organization): the list requests so far
  listed,      \* descriptors the API returned, in order, with their source
  orgs,        \* number of organizations Organizations.List returned
  orgsState,   \* "none" (not called yet), "ok", "err"
  enum,        \* feedRepositoryQueue: its position and locals
  emitted,     \* descriptors sent on the work channel, in order, with their source
  queueClosed, \* close(queue) has run
  dPc,         \* processQueue: "range" (at the receive of its range), "spawn",
               \* "wait", "done" (at done <- 1), "returned"
  wg,          \* the WaitGroup counter
  doneSent,    \* number of completed sends on the done channel
  tasks,       \* the synchronization goroutines, in spawn order
  fs,          \* what each mirror path is on disk: "absent", "dir", "file";
               \* "uninspected" until the run first looks at it
  loggerPc,    \* the one-shot receiver of main: "select", "exited"
  driverPc,    \* main's loop: "select", "logging", "exited"
  delivered,   \* progress messages received
  received,    \* number of messages each receiver took
  crashed,     \* a goroutine panicked: the process is gone
  deriver,     \* the mirror-path derivation taken alone: its inputs and results
  mirror       \* one mirror synchronized again and again, taken alone: the
               \* refs of the remote and of the local mirror

enumVars == << api, listed, orgs, orgsState, enum, emitted, queueClosed >>
dispVars == << dPc, wg, doneSent >>
mainVars == << loggerPc, driverPc >>
logVars == << delivered, received >>
progVars == << api, listed, orgs, orgsState, enum, emitted, queueClosed, dPc, wg,
               doneSent, tasks, fs, loggerPc, driverPc, delivered, received, crashed >>
vars == << api, listed, orgs, orgsState, enum, emitted, queueClosed, dPc, wg, doneSent,
           tasks, fs, loggerPc, driverPc, delivered, received, crashed, deriver,
           mirror >>

Max(a, b) == IF a < b THEN b ELSE a

Sources == 0..Max(MaxOrgs, EnumMaxOrgs)

\* the process is alive: no panic, and main has not returned
Running == ~crashed /\ driverPc # "exited"

\* What the API may answer to the next list request of a source: an error,
\* or a page with its next-page indicator (page k announces page k + 1).
Responses(src, maxPages) ==
  LET k == api[src].calls + 1
      room == Min(MaxPerPage, MaxRepos - Len(listed))
  IN {[repos |-> << >>, next |-> 0, err |-> TRUE]}
     \cup {[repos |-> rs, next |-> n, err |-> FALSE] :
             rs \in SeqsUpTo(Descriptors, room),
             n \in {0} \cup (IF k < maxPages THEN {k + 1} ELSE {})}

\* the descriptors of a page, each with the source it was listed for
Tagged(rs, src) == [j \in 1..Len(rs) |-> [d |-> rs[j], src |-> src]]

ProgInit ==
  /\ api = [src \in Sources |-> [calls |-> 0, next |-> 0, err |-> FALSE]]
  /\ listed = << >>
  /\ orgs = 0
  /\ orgsState = "none"
  /\ enum = [pc |-> "list", src |-> 0, page |-> 0, repos |-> << >>, next |-> 0,
             msg |-> ""]
  /\ emitted = << >>
  /\ queueClosed = FALSE
  /\ dPc = "range"
  /\ wg = 0
  /\ doneSent = 0
  /\ tasks = << >>
  /\ fs = [p \in Paths |-> "uninspected"]
  /\ loggerPc = "select"
  /\ driverPc = "select"
  /\ delivered = {}
  /\ received = [by \in {"logger", "driver"} |-> 0]
  /\ crashed = FALSE

Init == ProgInit /\ deriver = [pc |-> "idle"] /\ mirror = [pc |-> "idle"]

\* ------------------------------------------------------ feedRepositoryQueue
\* where the enumerator goes when a source is over: after the user's list
\* the organization list, after an organization the next one, after the
\* last one the return (and the deferred close)
AfterSource(src, n) ==
  IF src = 0 THEN [pc |-> "orgs", src |-> 0]
  ELSE IF src < n THEN [pc |-> "list", src |-> src + 1]
  ELSE [pc |-> "return", src |-> src]

\* the test without opt.Page == 0: any empty page ends the source
EndsOnAnyEmptyPage(page, repos) == repos = << >>

\* the pagination test of the list loops: an empty first page ends the source
EndsOnEmptyFirstPage(page, repos) == page = 0 /\ repos = << >>

\* the enumerator once the range over a page's repositories is over
AfterPage(e) ==
  IF e.next # 0
    THEN [e EXCEPT !.pc = "list", !.page = e.next, !.repos = << >>]
    ELSE LET a == AfterSource(e.src, orgs)
         IN [e EXCEPT !.pc = a.pc, !.src = a.src, !.page = 0, !.repos = << >>]

\* client.Repositories.List / ListByOrg and the tests on its result
EnumList(maxPages) ==
  /\ Running
  /\ UNCHANGED << deriver, mirror >>
  /\ enum.pc = "list"
  /\ \E r \in Responses(enum.src, maxPages) :
       /\ api' = [api EXCEPT ![enum.src] =
                         [calls |-> @.calls + 1, next |-> r.next, err |-> r.err]]
       /\ listed' = listed \o Tagged(r.repos, enum.src)
       /\ enum' =
            IF r.err
              THEN [enum EXCEPT !.pc = "log", !.msg = "error"]
            ELSE IF EndsOnEmptyFirstPage(enum.page, r.repos)
              THEN [enum EXCEPT !.pc = "log", !.msg = "none available"]
            ELSE IF r.repos = << >>
              THEN AfterPage([enum EXCEPT !.next = r.next])
            ELSE [enum EXCEPT !.pc = "send", !.repos = r.repos, !.next = r.next]
  /\ UNCHANGED << orgs, orgsState, emitted, queueClosed, dispVars, tasks, fs,
                  mainVars, logVars, crashed >>

\* the request of the organization list hoisted above the loop over the
\* user's pages: the organizations are known before the user's descriptors
\* are sent
EnumOrgsHoisted(maxOrgs) ==
  /\ Running
  /\ UNCHANGED << deriver, mirror >>
  /\ \/ /\ enum.pc = "list" /\ enum.src = 0 /\ orgsState = "none"
        /\ \E n \in 0..maxOrgs : orgsState' = "ok" /\ orgs' = n
        /\ UNCHANGED enum
     \/ /\ enum.pc = "orgs"
        /\ enum' = IF orgs = 0 THEN [enum EXCEPT !.pc = "return"]
                   ELSE [enum EXCEPT !.pc = "list", !.src = 1, !.page = 0]
        /\ UNCHANGED << orgs, orgsState >>
  /\ UNCHANGED << api, listed, emitted, queueClosed, dispVars, tasks, fs, mainVars,
                  logVars, crashed >>

\* client.Organizations.List: an error is reported and leaves no organization
EnumOrgs(maxOrgs) ==
  /\ Running
  /\ UNCHANGED << deriver, mirror >>
  /\ enum.pc = "orgs"
  /\ \/ /\ orgsState' = "err"
        /\ orgs' = 0
        /\ enum' = [enum EXCEPT !.pc = "log", !.msg = "error", !.src = -1]
     \/ \E n \in 0..maxOrgs :
          /\ orgsState' = "ok"
          /\ orgs' = n
          /\ enum' = IF n = 0 THEN [enum EXCEPT !.pc = "return"]
                     ELSE [enum EXCEPT !.pc = "list", !.src = 1, !.page = 0]
  /\ UNCHANGED << api, listed, emitted, queueClosed, dispVars, tasks, fs, mainVars,
                  logVars, crashed >>

\* a return in place of the break: a reported failure ends the enumeration
EnumAfterLogReturns(e) == [e EXCEPT !.pc = "return", !.msg = ""]

\* close(queue) as the last statement instead of deferred, the failure
\* path returning before it
EnumAfterLogSkipsClose(e) == [e EXCEPT !.pc = "returned", !.msg = ""]

\* the enumerator once its progress message has been taken
EnumAfterLog(e) ==
  IF e.src = -1 THEN [e EXCEPT !.pc = "return", !.src = 0, !.msg = ""]
  ELSE LET a == AfterSource(e.src, orgs)
       IN [e EXCEPT !.pc = a.pc, !.src = a.src, !.page = 0, !.msg = ""]

\* the return of feedRepositoryQueue: defer close(queue)
EnumReturn ==
  /\ Running
  /\ UNCHANGED << deriver, mirror >>
  /\ enum.pc = "return"
  /\ enum' = [enum EXCEPT !.pc = "returned"]
  /\ queueClosed' = TRUE
  /\ UNCHANGED << api, listed, orgs, orgsState, emitted, dispVars, tasks, fs, mainVars,
                  logVars, crashed >>

\* ------------------------------------------------------------- processQueue
NewTask(d) == [repo |-> d, pc |-> "start", stat |-> "none", ops |-> << >>, err |-> ""]

\* a work channel with room for a descriptor: a send completes with the
\* dispatcher away from its receive
QueueSendCompletesBuffered(d) == TRUE

\* queue := make(chan github.Repository): unbuffered, a send completes when
\* the dispatcher is at the receive of its range
QueueSendCompletes(d) == d = "range"

\* queue <- repo meets the range over queue
QueueHandoff ==
  /\ Running
  /\ UNCHANGED << deriver, mirror >>
  /\ enum.pc = "send"
  /\ QueueSendCompletes(dPc)
  /\ emitted' = Append(emitted, [d |-> Head(enum.repos), src |-> enum.src])
  /\ enum' = IF Len(enum.repos) = 1 THEN AfterPage(enum)
             ELSE [enum EXCEPT !.repos = Tail(@)]
  /\ dPc' = "spawn"
  /\ UNCHANGED << api, listed, orgs, orgsState, queueClosed, wg, doneSent, tasks, fs,
                  mainVars, logVars, crashed >>

\* the body of the range: the dispatcher counts the task (wg.Add(1)) and
\* starts its goroutine on the descriptor it received
DispSpawn ==
  /\ Running
  /\ UNCHANGED << deriver, mirror >>
  /\ dPc = "spawn"
  /\ Len(tasks) < Len(emitted)
  /\ tasks' = Append(tasks, NewTask(emitted[Len(tasks) + 1].d))
  /\ wg' = wg + 1
  /\ dPc' = "range"
  /\ UNCHANGED << enumVars, doneSent, fs, mainVars, logVars, crashed >>

\* the range over queue ends when the channel is closed
RangeEnds ==
  /\ Running
  /\ UNCHANGED << deriver, mirror >>
  /\ dPc = "range"
  /\ queueClosed
  /\ dPc' = "wait"
  /\ UNCHANGED << enumVars, wg, doneSent, tasks, fs, mainVars, logVars, crashed >>

\* wg.Wait() left out: the dispatcher goes on at once
WaitReturnsAtOnce(w) == TRUE

\* wg.Wait() off by one: it returns while one task is still counted
WaitReturnsBelowTwo(w) == w <= 1

\* wg.Wait() returns when the counter is zero
WaitReturns(w) == w = 0

DispWait ==
  /\ Running
  /\ UNCHANGED << deriver, mirror >>
  /\ dPc = "wait"
  /\ WaitReturns(wg)
  /\ dPc' = "done"
  /\ UNCHANGED << enumVars, wg, doneSent, tasks, fs, mainVars, logVars, crashed >>

\* done <- 1 meets case <-done of main's loop, which returns
DoneHandoff ==
  /\ Running
  /\ UNCHANGED << deriver, mirror >>
  /\ dPc = "done"
  /\ driverPc = "select"
  /\ dPc' = "returned"
  /\ doneSent' = doneSent + 1
  /\ driverPc' = "exited"
  /\ UNCHANGED << enumVars, wg, tasks, fs, loggerPc, logVars, crashed >>

\* ------------------------------------------------- the goroutine of one task
\* a task ends: its error, if any, is printed by log.Println, then wg.Done()
TaskEnds(i, e) ==
  /\ tasks' = [tasks EXCEPT ![i].pc = "returned", ![i].err = e]
  /\ wg' = wg - 1

\* a panic in a goroutine ends the process
TaskPanics(i) ==
  /\ tasks' = [tasks EXCEPT ![i].pc = "panicked"]
  /\ crashed' = TRUE

\* remote.Path[1:] is a slice out of range when remote.Path is empty
SlicePanics(urlPath) == Len(urlPath) < 1

\* url.Parse(*repo.CloneURL), up to the send of "checking <path>"
TaskParse(i) ==
  /\ Running
  /\ UNCHANGED << deriver, mirror >>
  /\ tasks[i].pc = "start"
  /\ IF ~tasks[i].repo.parses
       THEN TaskEnds(i, "parse") /\ UNCHANGED crashed
     ELSE IF SlicePanics(tasks[i].repo.path)
       THEN TaskPanics(i) /\ UNCHANGED wg
     ELSE /\ tasks' = [tasks EXCEPT ![i].pc = "checking"]
          /\ UNCHANGED << wg, crashed >>
  /\ UNCHANGED << enumVars, dPc, doneSent, fs, mainVars, logVars >>

\* the existence test inverted: a present directory is created and cloned
BackupBranchAlwaysCreates(st) ==
  IF st = "file" THEN "conflict" ELSE "mkdir"

\* the IsDir test left out: whatever is present is fetched into
BackupBranchNoDirTest(st) ==
  IF st = "absent" THEN "mkdir" ELSE "fetch"

\* the branch Mirror.Backup / Mirror.Fetch takes on what os.Stat found
BackupBranch(st) ==
  IF st = "absent" THEN "mkdir" ELSE IF st = "dir" THEN "fetch" ELSE "conflict"

\* what a path may be on disk when the run first looks at it
OnDisk(p) == IF fs[p] = "uninspected" THEN {"absent", "dir", "file"} ELSE {fs[p]}

\* os.Stat(b.path) and the tests on it.  An error other than "not exist"
\* leaves stat nil, and stat.IsDir() panics.
TaskStat(i) ==
  /\ Running
  /\ UNCHANGED << deriver, mirror >>
  /\ tasks[i].pc = "stat"
  /\ \/ TaskPanics(i) /\ UNCHANGED << wg, fs >>
     \/ \E st \in OnDisk(PathOf(tasks[i].repo)) :
          /\ fs' = [fs EXCEPT ![PathOf(tasks[i].repo)] = st]
          /\ IF BackupBranch(st) = "conflict"
               THEN /\ tasks' = [tasks EXCEPT ![i].pc = "returned", ![i].stat = st,
                                              ![i].err = "conflict"]
                    /\ wg' = wg - 1
                    /\ UNCHANGED crashed
               ELSE /\ tasks' = [tasks EXCEPT ![i].pc = BackupBranch(st), ![i].stat = st]
                    /\ UNCHANGED << wg, crashed >>
  /\ UNCHANGED << enumVars, dPc, doneSent, mainVars, logVars >>

\* the error of os.MkdirAll not looked at: the clone follows in any case
TaskMkdirIgnoresError(i) ==
  /\ Running
  /\ UNCHANGED << deriver, mirror >>
  /\ tasks[i].pc = "mkdir"
  /\ \/ /\ fs' = [fs EXCEPT ![PathOf(tasks[i].repo)] = "dir"]
        /\ tasks' = [tasks EXCEPT ![i].pc = "clone", ![i].ops = Append(@, "mkdir")]
     \/ /\ tasks' = [tasks EXCEPT ![i].pc = "clone"]
        /\ UNCHANGED fs
  /\ UNCHANGED << enumVars, dispVars, mainVars, logVars, crashed >>

\* os.MkdirAll(b.path, 0777)
TaskMkdir(i) ==
  /\ Running
  /\ UNCHANGED << deriver, mirror >>
  /\ tasks[i].pc = "mkdir"
  /\ \/ /\ fs' = [fs EXCEPT ![PathOf(tasks[i].repo)] = "dir"]
        /\ tasks' = [tasks EXCEPT ![i].pc = "clone", ![i].ops = Append(@, "mkdir")]
        /\ UNCHANGED wg
     \/ TaskEnds(i, "mkdir") /\ UNCHANGED fs
  /\ UNCHANGED << enumVars, dPc, doneSent, mainVars, logVars, crashed >>

\* What a failed clone leaves of the directory MkdirAll made for it.  Backup
\* and Fetch return the error and undo nothing; the clone operation itself
\* leaves the directory (with whatever it had written) or, cleaning up
\* after itself, removes it.
LeftByFailedClone == {"dir", "absent"}

\* git clone --mirror / git.Clone: on success the fetch follows
TaskClone(i) ==
  /\ Running
  /\ UNCHANGED << deriver, mirror >>
  /\ tasks[i].pc = "clone"
  /\ \/ /\ tasks' = [tasks EXCEPT ![i].pc = "fetch", ![i].ops = Append(@, "clone")]
        /\ UNCHANGED << wg, fs >>
     \/ /\ tasks' = [tasks EXCEPT ![i].pc = "returned", ![i].ops = Append(@, "clone"),
                                  ![i].err = "clone"]
        /\ wg' = wg - 1
        /\ \E left \in LeftByFailedClone :
             fs' = [fs EXCEPT ![PathOf(tasks[i].repo)] = left]
  /\ UNCHANGED << enumVars, dPc, doneSent, mainVars, logVars, crashed >>

\* a rollback after a failed fetch: the mirror path is removed
TaskFetchRollsBack(i) ==
  /\ Running
  /\ UNCHANGED << deriver, mirror >>
  /\ tasks[i].pc = "fetch"
  /\ \/ /\ tasks' = [tasks EXCEPT ![i].pc = "complete", ![i].ops = Append(@, "fetch")]
        /\ UNCHANGED << wg, fs >>
     \/ /\ tasks' = [tasks EXCEPT ![i].pc = "returned", ![i].ops = Append(@, "fetch"),
                                  ![i].err = "fetch"]
        /\ wg' = wg - 1
        /\ fs' = [fs EXCEPT ![PathOf(tasks[i].repo)] = "absent"]
  /\ UNCHANGED << enumVars, dPc, doneSent, mainVars, logVars, crashed >>

\* git fetch --prune origin / remote.Fetch
TaskFetch(i) ==
  /\ Running
  /\ UNCHANGED << deriver, mirror >>
  /\ tasks[i].pc = "fetch"
  /\ \/ /\ tasks' = [tasks EXCEPT ![i].pc = "complete", ![i].ops = Append(@, "fetch")]
        /\ UNCHANGED wg
     \/ /\ tasks' = [tasks EXCEPT ![i].pc = "returned", ![i].ops = Append(@, "fetch"),
                                  ![i].err = "fetch"]
        /\ wg' = wg - 1
  /\ UNCHANGED << enumVars, dPc, doneSent, fs, mainVars, logVars, crashed >>

\* ------------------------------------------------------ the progress channel
Receivers == {"logger", "driver"}

\* a receiver is at its receive from msgQueue
Receiving(by) ==
  \/ by = "logger" /\ loggerPc = "select"
  \/ by = "driver" /\ driverPc = "select"

\* a channel that lets a send complete with no receiver at its receive
SendCompletesUnreceived(by) == TRUE

\* msgQueue := make(chan string): unbuffered, a send completes when a
\* receiver takes the message
SendCompletes(by) == Receiving(by)

\* the receiver takes the message: the one-shot goroutine prints it and
\* ends, main's loop prints it and selects again
Receive(by, m) ==
  /\ delivered' = delivered \cup {m}
  /\ received' = [received EXCEPT ![by] = @ + 1]
  /\ IF by = "logger"
       THEN loggerPc' = "exited" /\ UNCHANGED driverPc
       ELSE driverPc' = "logging" /\ UNCHANGED loggerPc

\* log <- ... of feedRepositoryQueue
EnumLog(by) ==
  /\ Running
  /\ UNCHANGED << deriver, mirror >>
  /\ enum.pc = "log"
  /\ SendCompletes(by)
  /\ Receive(by, [from |-> "enum", id |-> enum.src, what |-> enum.msg])
  /\ enum' = EnumAfterLog(enum)
  /\ UNCHANGED << api, listed, orgs, orgsState, emitted, queueClosed, dispVars, tasks, fs,
                  crashed >>

\* verboseLog <- "checking <path>"
TaskChecking(i, by) ==
  /\ Running
  /\ UNCHANGED << deriver, mirror >>
  /\ tasks[i].pc = "checking"
  /\ SendCompletes(by)
  /\ Receive(by, [from |-> "task", id |-> i, what |-> "checking"])
  /\ tasks' = [tasks EXCEPT ![i].pc = "stat"]
  /\ UNCHANGED << enumVars, dispVars, fs, crashed >>

\* verboseLog <- "<path> complete", then wg.Done()
TaskComplete(i, by) ==
  /\ Running
  /\ UNCHANGED << deriver, mirror >>
  /\ tasks[i].pc = "complete"
  /\ SendCompletes(by)
  /\ Receive(by, [from |-> "task", id |-> i, what |-> "complete"])
  /\ TaskEnds(i, "")
  /\ UNCHANGED << enumVars, dPc, doneSent, fs, crashed >>

\* ------------------------------------------------------------- main's loop
\* case <-time.After(2 * time.Second): a dot on stderr, and select again
DriverTick ==
  /\ Running
  /\ UNCHANGED << deriver, mirror >>
  /\ driverPc = "select"
  /\ UNCHANGED driverPc
  /\ UNCHANGED << enumVars, dispVars, tasks, fs, loggerPc, logVars, crashed >>

\* the body of a case is over: the loop selects again
DriverLoop ==
  /\ Running
  /\ UNCHANGED << deriver, mirror >>
  /\ driverPc = "logging"
  /\ driverPc' = "select"
  /\ UNCHANGED << enumVars, dispVars, tasks, fs, loggerPc, logVars, crashed >>

Next ==
  \/ EnumList(MaxPages)
  \/ EnumOrgs(MaxOrgs)
  \/ EnumReturn
  \/ QueueHandoff
  \/ DispSpawn
  \/ RangeEnds
  \/ DispWait
  \/ DoneHandoff
  \/ \E i \in 1..Len(tasks) : TaskParse(i)
  \/ \E i \in 1..Len(tasks) : TaskStat(i)
  \/ \E i \in 1..Len(tasks) : TaskMkdir(i)
  \/ \E i \in 1..Len(tasks) : TaskClone(i)
  \/ \E i \in 1..Len(tasks) : TaskFetch(i)
  \/ \E by \in Receivers : EnumLog(by)
  \/ \E i \in 1..Len(tasks), by \in Receivers : TaskChecking(i, by)
  \/ \E i \in 1..Len(tasks), by \in Receivers : TaskComplete(i, by)
  \/ DriverTick
  \/ DriverLoop

Spec == Init /\ [][Next]_vars

\* The enumeration alone: feedRepositoryQueue, the dispatcher's receive loop
\* and main's loop, the synchronization goroutines not being scheduled.
EnumNext ==
  \/ EnumList(EnumMaxPages)
  \/ EnumOrgs(EnumMaxOrgs)
  \/ EnumReturn
  \/ QueueHandoff
  \/ DispSpawn
  \/ RangeEnds
  \/ DispWait
  \/ DoneHandoff
  \/ \E by \in Receivers : EnumLog(by)
  \/ DriverTick
  \/ DriverLoop

EnumSpec == Init /\ [][EnumNext]_vars

\* ------------------------------------------- the path derivation taken alone
\* host, owner and repository strings: a host is a name with or without a
\* port; an owner or a repository is a string without "/"
Hosts == {<< >>, << "h" >>, << "g" >>, << "h", ":", "1" >>, << "h", ":", "2" >>,
          << "." >>}
Owners == {<< >>, << "a" >>, << "." >>, << ".", "." >>, << "a", "." >>}
Names == SeqsUpTo({"a", "."}, MaxStr)
Remotes == [host : Hosts, owner : Owners, repo : Names]

\* remote.Path of https://<host>/<owner>/<repo>
UrlPath(t) == << "/" >> \o t.owner \o << "/" >> \o t.repo

PathInit ==
  /\ ProgInit
  /\ deriver \in {[pc |-> "first", root |-> BackupDir, a |-> t, b |-> t,
                    pa |-> << >>, pb |-> << >>] : t \in Remotes}
  /\ mirror = [pc |-> "idle"]

\* the derivation for a first remote URL
DeriveFirst ==
  /\ deriver.pc = "first"
  /\ deriver' = [deriver EXCEPT
                   !.pa = MirrorPath(deriver.root, deriver.a.host, UrlPath(deriver.a)),
                   !.pc = "second"]
  /\ UNCHANGED << progVars, mirror >>

\* the derivation for a second remote URL under the same backup root
DeriveSecond ==
  /\ deriver.pc = "second"
  /\ \E t \in Remotes :
       deriver' = [deriver EXCEPT
                     !.b = t,
                     !.pb = MirrorPath(deriver.root, t.host, UrlPath(t)),
                     !.pc = "done"]
  /\ UNCHANGED << progVars, mirror >>

PathNext == DeriveFirst \/ DeriveSecond

PathSpec == PathInit /\ [][PathNext]_vars

\* ------------------------------------------ one mirror synchronized, alone
\* Mirror.Backup (src/backup/mirror.go, the git command line) and
\* Mirror.Fetch (src/mirror.go, libgit2) called on one mirror path again and
\* again, the remote changing between the calls.  A set of refs is a
\* function from ref names to commits, 0 for a ref that does not exist.
RefNames == {"r1", "r2"}
RefSets == [RefNames -> 0..MaxCommit]
NoRefs == [r \in RefNames |-> 0]

\* git clone --mirror: every ref of the remote, as it is
CloneMirrorRefs(remote) == remote

\* git.Clone with Bare: every ref of the remote is fetched
CloneBareRefs(remote) == remote

\* git fetch --prune origin in a mirror: refs are overwritten with the
\* remote's, refs the remote no longer has are removed
FetchPruneRefs(local, remote) == remote

\* remote.Fetch(nil, ""): refs the remote has are updated, nothing is
\* removed
FetchRefs(local, remote) ==
  [r \in RefNames |-> IF remote[r] # 0 THEN remote[r] ELSE local[r]]

CloneRefs(variant, remote) ==
  IF variant = "Backup" THEN CloneMirrorRefs(remote) ELSE CloneBareRefs(remote)

FetchedRefs(variant, local, remote) ==
  IF variant = "Backup" THEN FetchPruneRefs(local, remote) ELSE FetchRefs(local, remote)

MirrorInit ==
  /\ ProgInit
  /\ deriver = [pc |-> "idle"]
  /\ mirror \in {[pc |-> "stat", variant |-> v, disk |-> d, remote |-> r,
                   local |-> NoRefs, cloned |-> FALSE, stat |-> "none",
                   ops |-> << >>, err |-> ""] :
                    v \in {"Backup", "Fetch"}, d \in {"absent", "file"}, r \in RefSets}

\* os.Stat(b.path) and the tests on it; an error other than "not exist"
\* leaves stat nil and stat.IsDir() panics
MirrorStat ==
  /\ mirror.pc = "stat"
  /\ \/ mirror' = [mirror EXCEPT !.pc = "panicked"]
     \/ mirror' = [mirror EXCEPT
                     !.stat = mirror.disk,
                     !.pc = IF BackupBranch(mirror.disk) = "conflict"
                              THEN "returned" ELSE BackupBranch(mirror.disk),
                     !.err = IF BackupBranch(mirror.disk) = "conflict"
                               THEN "conflict" ELSE ""]
  /\ UNCHANGED << progVars, deriver >>

\* os.MkdirAll(b.path, 0777)
MirrorMkdir ==
  /\ mirror.pc = "mkdir"
  /\ \/ mirror' = [mirror EXCEPT !.pc = "clone", !.disk = "dir",
                                  !.ops = Append(@, "mkdir")]
     \/ mirror' = [mirror EXCEPT !.pc = "returned", !.err = "mkdir"]
  /\ UNCHANGED << progVars, deriver >>

\* git clone --mirror / git.Clone
MirrorClone ==
  /\ mirror.pc = "clone"
  /\ \/ mirror' = [mirror EXCEPT
                     !.pc = "fetch", !.ops = Append(@, "clone"), !.cloned = TRUE,
                     !.local = CloneRefs(mirror.variant, mirror.remote)]
     \/ \E left \in LeftByFailedClone :
          mirror' = [mirror EXCEPT !.pc = "returned", !.ops = Append(@, "clone"),
                                   !.err = "clone", !.disk = left]
  /\ UNCHANGED << progVars, deriver >>

\* git fetch --prune origin / OpenRepository, LoadRemote, remote.Fetch: it
\* can succeed only in a directory a clone has made a repository of
MirrorFetch ==
  /\ mirror.pc = "fetch"
  /\ \/ /\ mirror.cloned
        /\ mirror' = [mirror EXCEPT
                        !.pc = "returned", !.ops = Append(@, "fetch"),
                        !.local = FetchedRefs(mirror.variant, mirror.local, mirror.remote)]
     \/ mirror' = [mirror EXCEPT !.pc = "returned", !.ops = Append(@, "fetch"),
                                  !.err = "fetch"]
  /\ UNCHANGED << progVars, deriver >>

\* a later run synchronizes the repository again; its refs have moved on
MirrorAgain ==
  /\ mirror.pc = "returned"
  /\ \E r \in RefSets :
       mirror' = [mirror EXCEPT !.pc = "stat", !.remote = r, !.stat = "none",
                                !.ops = << >>, !.err = ""]
  /\ UNCHANGED << progVars, deriver >>

MirrorNext ==
  \/ MirrorStat
  \/ MirrorMkdir
  \/ MirrorClone
  \/ MirrorFetch
  \/ MirrorAgain

MirrorSpec == MirrorInit /\ [][MirrorNext]_vars

\* ================================================================ properties
TaskIds == 1..Len(tasks)

\* the entries of a sequence of tagged descriptors that come from a source
FromSource(seq, src) == SelectSeq(seq, LAMBDA x : x.src = src)

CountIn(x, seq) == Cardinality({j \in 1..Len(seq) : seq[j] = x})

\* two sequences hold the same elements the same number of times
SameBag(s1, s2) ==
  /\ Len(s1) = Len(s2)
  /\ \A j \in 1..Len(s1) : CountIn(s1[j], s1) = CountIn(s1[j], s2)

EnumSources == 0..orgs

NoApiError == orgsState # "err" /\ \A src \in Sources : ~api[src].err

\* the first page of a source came back empty
EmptyFirst(src) ==
  api[src].calls = 1 /\ ~api[src].err /\ FromSource(listed, src) = << >>

\* a sender is at a send on the progress channel
PendingSend ==
  \/ enum.pc = "log"
  \/ \E i \in TaskIds : tasks[i].pc \in {"checking", "complete"}

\* ---------------------------------------------------------------------- C1
\* C1: the send on done happens only when the work channel is closed and
\* every spawned task has returned, and at most once in a run.
C1_CompletionAfterAll ==
  /\ (dPc \in {"done", "returned"} \/ doneSent > 0) =>
       /\ queueClosed
       /\ Len(tasks) = Len(emitted)
       /\ \A i \in TaskIds : tasks[i].pc = "returned"
  /\ doneSent <= 1

\* the signal was sent in a run with a task that succeeded and one that failed
C1_Witness ==
  /\ doneSent = 1
  /\ \E i, j \in TaskIds : tasks[i].err = "" /\ tasks[j].err # ""

\* ---------------------------------------------------------------------- C2
\* C2: the run always terminates: whatever the API returns, it never stops
\* before the work channel is closed and main has received the completion
\* signal, no sender being left at a send.
C2_StopsOnlyAfterCompletion ==
  ~Running => (queueClosed /\ doneSent = 1 /\ driverPc = "exited" /\ ~PendingSend)

\* ---------------------------------------------------------------------- C3
\* the two-organization case: no personal repository, two organizations with
\* one repository each, give two descriptors, both of an organization
TwoOrgCase ==
  (/\ FromSource(listed, 0) = << >>
   /\ orgs = 2
   /\ \A k \in 1..2 : Len(FromSource(listed, k)) = 1)
  => /\ Len(emitted) = 2
     /\ \A j \in 1..Len(emitted) : emitted[j].src >= 1

\* C3 as stated: with no API error, every source is paged until the API
\* reports next page 0 (an empty page does not end it), and what was emitted
\* is, as a multiset, what was listed.
C3_AllPagesFollowed ==
  (enum.pc = "returned" /\ NoApiError) =>
    /\ \A src \in EnumSources : api[src].next = 0
    /\ SameBag(emitted, listed)
    /\ TwoOrgCase

\* C3, amended: with no API error, every source is paged until the API
\* reports next page 0 or its first page comes back empty, and what was
\* emitted is, as a multiset, what was listed on the pages requested.
C3_PagesFollowedButEmptyFirst ==
  (enum.pc = "returned" /\ NoApiError) =>
    /\ \A src \in EnumSources : api[src].next = 0 \/ EmptyFirst(src)
    /\ \A src \in EnumSources : api[src].calls >= 1
    /\ SameBag(emitted, listed)
    /\ TwoOrgCase

\* no personal repository, two organizations with one repository each; the
\* first one's second page is empty and announces a third, which is requested
C3_Witness ==
  /\ enum.pc = "returned" /\ NoApiError
  /\ orgs = 2
  /\ EmptyFirst(0)
  /\ api[1].calls = 3 /\ Len(FromSource(emitted, 1)) = 1
  /\ Len(FromSource(emitted, 2)) = 1
  /\ Len(emitted) = 2

\* ---------------------------------------------------------------------- C4
\* C4: a per-repository error never aborts a sibling task: when the process
\* is over, every spawned task has reached its own end.
C4_NoSiblingAborted ==
  ~Running => \A i \in TaskIds : tasks[i].pc \in {"returned", "panicked"}

\* ---------------------------------------------------------------------- C5
\* C5: an enumeration failure is reported on the progress channel and ends
\* only its own source: after a failing user list the organizations are
\* still listed; a failing organization list leaves no organization
\* repository and keeps every user repository; a failing organization leaves
\* the other organizations paged to their end; in each case whatever a
\* source listed has been emitted.
C5_FailuresScoped ==
  /\ \A src \in Sources :
       api[src].err => ~(enum.src = src /\ enum.pc \in {"list", "send"})
  /\ enum.pc = "returned" =>
       /\ orgsState # "none"
       /\ api[0].calls >= 1
       /\ orgsState = "err" =>
            /\ \A j \in 1..Len(emitted) : emitted[j].src = 0
            /\ [from |-> "enum", id |-> -1, what |-> "error"] \in delivered
       /\ \A src \in EnumSources :
            /\ api[src].calls >= 1
            /\ FromSource(emitted, src) = FromSource(listed, src)
            /\ api[src].err =>
                 [from |-> "enum", id |-> src, what |-> "error"] \in delivered
            /\ ~api[src].err => (api[src].next = 0 \/ EmptyFirst(src))

\* the user list and the first organization fail, the second organization
\* is paged to its end and its repositories are emitted
C5_Witness ==
  /\ enum.pc = "returned"
  /\ api[0].err /\ Len(FromSource(emitted, 0)) = 1
  /\ orgs = 2
  /\ api[1].err
  /\ ~api[2].err /\ api[2].calls = 2 /\ Len(FromSource(emitted, 2)) = 1

\* ---------------------------------------------------------------------- C7
\* C7: a synchronization that finds its mirror path present as a directory
\* only fetches: it creates no directory and runs no clone.
C7_PresentDirOnlyFetches ==
  \A i \in TaskIds :
    tasks[i].stat = "dir" =>
      /\ tasks[i].pc \in {"fetch", "complete", "returned", "panicked"}
      /\ tasks[i].ops = (IF tasks[i].pc = "fetch" THEN << >> ELSE << "fetch" >>)
      /\ tasks[i].err \in {"", "fetch"}

\* a repository listed twice: the first synchronization created and cloned
\* the mirror, the second one found the directory and fetched
C7_Witness ==
  \E i, j \in TaskIds :
    /\ i < j
    /\ PathOf(tasks[i].repo) = PathOf(tasks[j].repo)
    /\ tasks[i].stat = "absent" /\ tasks[i].ops = << "mkdir", "clone", "fetch" >>
    /\ tasks[j].stat = "dir" /\ tasks[j].ops = << "fetch" >>
    /\ tasks[j].pc = "returned" /\ tasks[j].err = ""

\* ---------------------------------------------------------------------- C8
\* C8: a synchronization that finds its mirror path present but not a
\* directory returns "<path> exists, but is a file", runs neither clone nor
\* fetch, leaves the path as it is, and sends no "complete" message.
C8_FileConflict ==
  \A i \in TaskIds :
    tasks[i].stat = "file" =>
      /\ tasks[i].pc = "returned"
      /\ tasks[i].err = "conflict"
      /\ tasks[i].ops = << >>
      /\ fs[PathOf(tasks[i].repo)] = "file"
      /\ [from |-> "task", id |-> i, what |-> "complete"] \notin delivered

\* a conflict on one repository beside a sibling that completed
C8_Witness ==
  \E i, j \in TaskIds :
    /\ tasks[i].stat = "file" /\ tasks[i].pc = "returned"
    /\ [from |-> "task", id |-> i, what |-> "checking"] \in delivered
    /\ tasks[j].pc = "returned" /\ tasks[j].err = "" /\ tasks[j].stat = "absent"

SendDone ==
  \/ enum.pc = "log" /\ enum'.pc # "log"
  \/ \E i \in TaskIds :
       tasks[i].pc \in {"checking", "complete"} /\ tasks'[i].pc # tasks[i].pc

ExpectedMessages ==
  {[from |-> "task", id |-> i, what |-> "checking"] :
     i \in {j \in TaskIds : tasks[j].err # "parse"}}
  \cup {[from |-> "task", id |-> i, what |-> "complete"] :
     i \in {j \in TaskIds : tasks[j].err = ""}}
  \cup {[from |-> "enum", id |-> src, what |-> "error"] :
     src \in {x \in Sources : api[x].err}}
  \cup {[from |-> "enum", id |-> src, what |-> "none available"] :
     src \in {x \in Sources : EmptyFirst(x)}}
  \cup (IF orgsState = "err"
          THEN {[from |-> "enum", id |-> -1, what |-> "error"]} ELSE {})

\* C10: when main has received the completion signal and returns, no sender
\* is at a send on the progress channel and every message sent was received,
\* each by one receiver.
C10_NoMessageLost ==
  driverPc = "exited" =>
    /\ ~PendingSend
    /\ delivered = ExpectedMessages
    /\ Cardinality(delivered) = received["logger"] + received["driver"]
    /\ received["logger"] <= 1

\* main returns after messages of the enumerator and of a task, one taken by
\* the one-shot receiver and the others by main's loop
C10_Witness ==
  /\ driverPc = "exited"
  /\ received["logger"] = 1 /\ received["driver"] >= 2
  /\ \E m \in delivered : m.from = "enum"
  /\ \E m \in delivered : m.from = "task" /\ m.what = "complete"

\* ------------------------------------------------------------ no stall
\* some goroutine can take a step other than a timer tick
StepReady ==
  \/ enum.pc \in {"list", "orgs", "return"}
  \/ enum.pc = "send" /\ dPc = "range"
  \/ dPc = "range" /\ queueClosed
  \/ dPc = "spawn"
  \/ dPc = "wait" /\ WaitReturns(wg)
  \/ dPc = "done" /\ driverPc = "select"
  \/ \E i \in TaskIds : tasks[i].pc \in {"start", "stat", "mkdir", "clone", "fetch"}
  \/ PendingSend /\ \E by \in Receivers : SendCompletes(by)
  \/ driverPc = "logging"

\* As long as the process is alive some goroutine can take a step other
\* than a timer tick; every such step moves a goroutine forward, so a run
\* scheduled fairly ends with main returning after <-done or with a panic.
NoStall == Running => StepReady

\* ---------------------------------------------------------------------- C6
RECURSIVE UpTo(_, _)
\* the part of a string before the first occurrence of a character
UpTo(str, c) ==
  IF str = << >> \/ Head(str) = c THEN << >> ELSE << Head(str) >> \o UpTo(Tail(str), c)

ProperName(x) == x # << >> /\ x # << "." >> /\ x # << ".", "." >>

\* the triple the path stands for: the host without its port, owner, repository
NamedTriple(t) == << UpTo(t.host, ":"), t.owner, t.repo >>

ProperRemote(t) == \A k \in 1..3 : ProperName(NamedTriple(t)[k])

C11_ClosedOnceAfterLastSend ==
  [][/\ queueClosed' <=> enum'.pc = "returned"
     /\ (queueClosed' /\ ~queueClosed) => enum.pc = "return"
     /\ queueClosed => (queueClosed' /\ emitted' = emitted /\ enum' = enum)]_vars

\* the channel is closed in a run where descriptors were sent and a list
\* request of an organization failed afterwards
C11_Witness ==
  /\ queueClosed
  /\ Len(emitted) >= 1
  /\ \E src \in 1..orgs : api[src].err
  /\ Len(emitted) = Len(listed)

\* --------------------------------------------------------------------- C12
\* the progress message of a kind that a task sent has been received
Sent(i, what) == [from |-> "task", id |-> i, what |-> what] \in delivered

\* a task has looked at the filesystem or run a version-control operation
Acted(i) == tasks[i].stat # "none" \/ tasks[i].ops # << >> \/
            tasks[i].pc \in {"mkdir", "clone", "fetch"}

\* C12: each descriptor received from the work channel has one task of its
\* own; "<path> complete" is sent exactly by the tasks whose synchronization
\* returned no error; "checking <path>" is sent before the task touches the
\* filesystem or runs a version-control operation; and when the run is over
\* every task has ended, as complete (no error) or as failed (an error),
\* none as neither.
C12_OneTaskOneOutcome ==
  /\ Len(tasks) <= Len(emitted)
  /\ \A i \in TaskIds : tasks[i].repo = emitted[i].d
  /\ \A i \in TaskIds :
       /\ Sent(i, "complete") <=> (tasks[i].pc = "returned" /\ tasks[i].err = "")
       /\ Acted(i) => Sent(i, "checking")
  /\ ~Running =>
       /\ Len(tasks) = Len(emitted)
       /\ \A i \in TaskIds : tasks[i].pc = "returned"

\* --------------------------------------------------------------------- C13
\* a task has run an operation (whether it succeeded or failed)
Ran(i, op) == \E k \in 1..Len(tasks[i].ops) : tasks[i].ops[k] = op

\* C13: no synchronization runs both a clone and a fetch; one that found
\* the path absent runs no fetch, one that found a directory runs no clone,
\* and one that returned no error has run exactly one of the two.
C13_ExactlyOneOperation ==
  \A i \in TaskIds :
    /\ ~(Ran(i, "clone") /\ Ran(i, "fetch"))
    /\ tasks[i].stat = "absent" => ~Ran(i, "fetch")
    /\ tasks[i].stat = "dir" => ~Ran(i, "clone")
    /\ (tasks[i].pc \in {"complete", "returned"} /\ tasks[i].err = "") =>
         (Ran(i, "clone") \/ Ran(i, "fetch"))

\* --------------------------------------------------------------------- C14
\* a task is between its existence check and the end of its clone or fetch
Working(i) == tasks[i].pc \in {"mkdir", "clone", "fetch"}

\* C14: no two tasks are at the same time between their existence check and
\* the end of their clone or fetch on one and the same MirrorPath.
C14_NoSharedPath ==
  \A i, j \in TaskIds :
    (i # j /\ Working(i) /\ Working(j)) =>
      PathOf(tasks[i].repo) # PathOf(tasks[j].repo)

\* --------------------------------------------------------------------- C15
\* a clone URL that does not name a repository: url.Parse rejects it, or it
\* parses with an empty path
Malformed(d) == ~d.parses \/ d.path = << >>

\* C15: the task of a descriptor with a malformed clone URL (one with an
\* empty URL path included) sends no "checking" and no "complete", examines
\* no path and runs no operation; it ends with its error reported and is
\* counted as finished, and it never takes the process down.
C15_MalformedUrlSkipped ==
  \A i \in TaskIds :
    Malformed(tasks[i].repo) =>
      /\ tasks[i].pc \in {"start", "returned"}
      /\ tasks[i].pc = "returned" => tasks[i].err = "parse"
      /\ ~Acted(i)
      /\ ~Sent(i, "checking") /\ ~Sent(i, "complete")

\* --------------------------------------------------------------------- C16
\* C16: once the organization list is about to be requested, has been
\* requested, or a descriptor of an organization has been sent, every
\* descriptor of the user's own list has been sent; and on the work channel
\* no descriptor of the user's list follows one of an organization.
C16_UserBeforeOrgs ==
  /\ (enum.pc = "orgs" \/ orgsState # "none" \/
        \E k \in 1..Len(emitted) : emitted[k].src > 0) =>
       FromSource(emitted, 0) = FromSource(listed, 0)
  /\ \A k, l \in 1..Len(emitted) :
       (k < l /\ emitted[k].src > 0) => emitted[l].src > 0

\* a descriptor of the user's list and then one of an organization were sent
C16_Witness ==
  /\ orgsState = "ok"
  /\ Len(emitted) = 2
  /\ emitted[1].src = 0
  /\ emitted[2].src = 1

\* --------------------------------------------------------------------- C17
\* descriptors the dispatcher has received: one per task it started, and
\* the one it holds between its receive and the start of the task
Received == Len(tasks) + (IF dPc = "spawn" THEN 1 ELSE 0)

\* descriptors of the current page the enumerator has still to send
Unsent == IF enum.pc = "send" THEN Len(enum.repos) ELSE 0

\* C17: the descriptors the enumerator has finished sending are as many as
\* the dispatcher has received, and every descriptor the API has returned
\* is either sent or waiting in the page being sent: no list request is
\* issued while a descriptor is unsent.
C17_Backpressure ==
  /\ Len(emitted) = Received
  /\ Len(listed) = Len(emitted) + Unsent

\* the enumerator waits at its next send while the dispatcher is starting
\* the task of the descriptor before
C17_Witness ==
  /\ dPc = "spawn"
  /\ enum.pc = "send"
  /\ Len(emitted) = Len(tasks) + 1
  /\ Len(listed) = Len(emitted) + 1

\* --------------------------------------------------------------------- C19
\* C19: a synchronization that ended with "could not create <path>" had
\* found the path absent, has run neither a clone nor a fetch and sent no
\* "complete"; and a synchronization that found the path absent runs a
\* clone or a fetch only after its directories were created.
C19_CreateFailureAborts ==
  \A i \in TaskIds :
    /\ tasks[i].err = "mkdir" =>
         /\ tasks[i].pc = "returned"
         /\ tasks[i].stat = "absent"
         /\ tasks[i].ops = << >>
         /\ ~Sent(i, "complete")
    /\ (tasks[i].stat = "absent" /\ (Ran(i, "clone") \/ Ran(i, "fetch"))) =>
         Ran(i, "mkdir")
    /\ (tasks[i].stat = "absent" /\ tasks[i].pc = "returned" /\ ~Ran(i, "mkdir")) =>
         tasks[i].err = "mkdir"

\* the creation failed for one repository while another was synchronized
C19_Witness ==
  \E i, j \in TaskIds :
    /\ tasks[i].err = "mkdir" /\ tasks[i].pc = "returned"
    /\ tasks[j].err = "" /\ tasks[j].pc = "returned" /\ Ran(j, "clone")

\* --------------------------------------------------------------------- C20
\* a clone into the path of task i has failed
CloneFailedOn(i) ==
  \E j \in TaskIds :
    tasks[j].err = "clone" /\ PathOf(tasks[j].repo) = PathOf(tasks[i].repo)

\* task i examines its path in this step
Examines(i) == tasks[i].pc = "stat" /\ tasks'[i].pc # "stat"

C18_RefsMirrorRemote ==
  (mirror.pc = "returned" /\ mirror.err = "") => mirror.local = mirror.remote

====
